---------------------------- MODULE Spec2Model ----------------------------
(***************************************************************************)
(* OxidoBoy host runtime (oxido_core/src/runtime.rs).                      *)
(*                                                                         *)
(* Two timing domains are modelled:                                        *)
(*   - the audio domain: AudioEngine::set_params on the main thread and    *)
(*     the cpal render callback fill_buffer on the audio thread, sharing   *)
(*     the Mutex<[HostCh; 4]> record `channels` (specification SpecAudio); *)
(*     SpecEnv runs whole fill_buffer calls between set_params calls, for  *)
(*     the envelope generator, the arpeggio and the mixer;                 *)
(*   - the simulation/presentation domain: run()'s start-up and its event  *)
(*     loop handlers (specification Spec); SpecInput runs key and focus    *)
(*     events between the ticks of one cartridge, SpecReload runs reloads  *)
(*     while the engine renders.                                           *)
(*                                                                         *)
(* Numbers.  f32 values are fixed-point integers: levels, volumes, duty    *)
(* and phases count in units of 1/One; durations are whole milliseconds;   *)
(* frequencies are whole Hz in the records and milli-Hz inside the         *)
(* oscillator.  Products and quotients round to the nearest unit, as the   *)
(* f32 operations round to the nearest representable value.  A wire f32    *)
(* is any bit pattern: besides the numbers there is the value NaN, which   *)
(* every comparison answers with false and every sum or product returns.   *)
(* Infinities are not represented.                                         *)
(***************************************************************************)
EXTENDS Integers, Sequences, FiniteSets, TLC

VARIABLES
    \* ---- audio engine -------------------------------------------------
    channels,      \* AudioEngine.channels: the Mutex-protected [HostCh; 4]
    loc,           \* fill_buffer's local copy `loc`
    rpc,           \* position of the render callback
    t_counter,     \* the callback's captured `t` (frames rendered so far)
    out,           \* the samples the last fill_buffer call wrote (one per frame)
    applied,       \* control values of the latest returned set_params call
    op,            \* the audio-domain operation that produced this state
    lock,          \* holder of the channels mutex: "free" | "audio" | "main"
    shadow,        \* channels of a renderer without the amplitude skip, run alongside
    \* ---- run(): module handle, hot reload, input, presentation --------
    host,          \* "init" | "running" | "failed" | "panicked" | "exited"
    file,          \* the cartridge file: [bin, mtime]
    handle,        \* store/memory/entry points, each tagged with its instance
    inst,          \* state held in the installed instance's store
    next_gen,      \* number the next instantiation gets
    last_mtime,
    reload_count,
    input_bits,
    held,          \* the keys that went down, and not up, since the last focus loss
    init_calls,    \* number of init.call(..) made since run() began
    audio_engine,  \* TRUE when AudioEngine::new returned Some
    pixels,        \* contents of the presentation frame
    tick           \* what the MainEventsCleared handler did, when it produced this state

avars == <<channels, loc, rpc, t_counter, out, applied, op, lock, shadow>>
hvars == <<host, file, handle, inst, next_gen, last_mtime, reload_count,
           input_bits, held, init_calls, audio_engine, pixels, tick>>
vars == <<channels, loc, rpc, t_counter, out, applied, op, lock, shadow,
          host, file, handle, inst, next_gen, last_mtime, reload_count,
          input_bits, held, init_calls, audio_engine, pixels, tick>>

---------------------------------------------------------------------------
(* Bounds of the model *)

\* fixed-point unit: the value 1.0
One == 8
\* sample rate reported by the output device, in Hz
SR == 8
\* largest number of frames in one callback buffer
MaxFrames == 2
\* the render callback is driven until t_counter reaches MaxT
MaxT == 4
\* modification times the cartridge file takes: 1..MaxMtime
MaxMtime == 2
\* the envelope specification renders until t_counter reaches MaxTEnv
MaxTEnv == 5
\* width of the frame counter where the callback runs without end: `t` is a
\* usize advanced by wrapping_add, here it wraps at TWrap
TWrap == 4

---------------------------------------------------------------------------
(* Arithmetic *)

\* the f32 value NaN (f32::from_le_bytes of a NaN bit pattern)
NaN == -1000000
IsNaN(x) == x = NaN

\* f32 comparisons: false when an operand is NaN
Lt(x, y) == ~IsNaN(x) /\ ~IsNaN(y) /\ x < y
Le(x, y) == ~IsNaN(x) /\ ~IsNaN(y) /\ x <= y
Gt(x, y) == ~IsNaN(x) /\ ~IsNaN(y) /\ x > y
Ge(x, y) == ~IsNaN(x) /\ ~IsNaN(y) /\ x >= y

\* f32 +, -, unary -, and multiplication by a constant: NaN when an operand is NaN
Add(x, y) == IF IsNaN(x) \/ IsNaN(y) THEN NaN ELSE x + y
Sub(x, y) == IF IsNaN(x) \/ IsNaN(y) THEN NaN ELSE x - y
Neg(x) == IF IsNaN(x) THEN NaN ELSE -x
Scale(k, x) == IF IsNaN(x) THEN NaN ELSE k * x

\* f32::max: when one argument is NaN the other is returned
Max(a, b) == IF IsNaN(a) THEN b ELSE IF IsNaN(b) THEN a ELSE IF a >= b THEN a ELSE b
Min(a, b) == IF a <= b THEN a ELSE b
\* f32::clamp: `if x < min { min } else if x > max { max } else { x }`, NaN stays NaN
Clamp(x, lo, hi) == IF Lt(x, lo) THEN lo ELSE IF Gt(x, hi) THEN hi ELSE x

\* n / d rounded to the nearest integer (halves away from zero), d > 0
RDiv(n, d) == IF n >= 0 THEN (2 * n + d) \div (2 * d)
                        ELSE -((2 * (-n) + d) \div (2 * d))

RECURSIVE Pow2(_)
Pow2(k) == IF k <= 0 THEN 1 ELSE 2 * Pow2(k - 1)

---------------------------------------------------------------------------
(* HostCh / WireCh *)

NumCh == 4
\* the mask 0x7FFF of the noise register
LfsrMask == 32767
ChIdx == 1..NumCh

ControlFields == {"kind", "base_freq", "vol", "duty", "gate",
                  "a_ms", "d_ms", "s_lvl", "r_ms",
                  "arp_a", "arp_b", "arp_c", "arp_rate_hz"}
SynthFields == {"phase", "noise", "env_level", "env_state", "gate_prev", "arp_phase"}

\* #[derive(Default)] for HostCh
HostChDefault ==
    [kind |-> 0, base_freq |-> 0, vol |-> 0, duty |-> 0, gate |-> FALSE,
     a_ms |-> 0, d_ms |-> 0, s_lvl |-> 0, r_ms |-> 0,
     arp_a |-> 0, arp_b |-> 0, arp_c |-> 0, arp_rate_hz |-> 0,
     phase |-> 0, noise |-> 0, env_level |-> 0, env_state |-> 0,
     gate_prev |-> FALSE, arp_phase |-> 0]

WireCh(kind, base_freq, vol, duty, gate, a_ms, d_ms, s_lvl, r_ms, arp_a, arp_b, arp_c, arp_rate_hz) ==
    [kind |-> kind, base_freq |-> base_freq, vol |-> vol, duty |-> duty,
     gate |-> gate, a_ms |-> a_ms, d_ms |-> d_ms, s_lvl |-> s_lvl, r_ms |-> r_ms,
     arp_a |-> arp_a, arp_b |-> arp_b, arp_c |-> arp_c, arp_rate_hz |-> arp_rate_hz]

Control(ch) == [f \in ControlFields |-> ch[f]]
Synth(ch) == [f \in SynthFields |-> ch[f]]

\* set_params_ch with `let mut h = HostCh::default()` in place of `= prev`
set_params_ch_fresh(prev, s) ==
    [HostChDefault EXCEPT
        !.kind = s.kind,
        !.base_freq = s.base_freq,
        !.vol = s.vol,
        !.duty = s.duty,
        !.gate = (s.gate # 0),
        !.a_ms = Max(s.a_ms, 0),
        !.d_ms = Max(s.d_ms, 0),
        !.s_lvl = Clamp(s.s_lvl, 0, One),
        !.r_ms = Max(s.r_ms, 0),
        !.arp_a = s.arp_a,
        !.arp_b = s.arp_b,
        !.arp_c = s.arp_c,
        !.arp_rate_hz = Max(s.arp_rate_hz, 0)]

\* The per-channel body of AudioEngine::set_params: h = prev, then the
\* control fields are overwritten from the wire record.
set_params_ch(prev, s) ==
    [prev EXCEPT
        !.kind = s.kind,
        !.base_freq = s.base_freq,
        !.vol = s.vol,
        !.duty = s.duty,
        !.gate = (s.gate # 0),
        !.a_ms = Max(s.a_ms, 0),
        !.d_ms = Max(s.d_ms, 0),
        !.s_lvl = Clamp(s.s_lvl, 0, One),
        !.r_ms = Max(s.r_ms, 0),
        !.arp_a = s.arp_a,
        !.arp_b = s.arp_b,
        !.arp_c = s.arp_c,
        !.arp_rate_hz = Max(s.arp_rate_hz, 0)]

\* AudioEngine::set_params: for i in 0..dst.len().min(src.len())
set_params(dst, src) ==
    [i \in DOMAIN dst |->
        IF i <= Min(Len(dst), Len(src)) THEN set_params_ch(dst[i], src[i]) ELSE dst[i]]

---------------------------------------------------------------------------
(* Synthesis: envelope, arpeggio, oscillators, mix *)

\* (step / a) for a = ms / 1000 seconds and step = 1 / sr, ms > 0
StepOver(ms) == RDiv(1000 * One, SR * ms)

\* x * y of two fixed-point values
Mul(x, y) == IF IsNaN(x) \/ IsNaN(y) THEN NaN ELSE RDiv(x * y, One)

\* env_edge whose rising edge restarts the envelope from level 0
env_edge_from_zero(ch) ==
    LET e == IF ch.gate /\ ~ch.gate_prev
             THEN IF ch.a_ms <= 0
                  THEN [ch EXCEPT !.env_level = One, !.env_state = 2]
                  ELSE [ch EXCEPT !.env_level = 0, !.env_state = 1]
             ELSE IF ~ch.gate /\ ch.gate_prev
             THEN IF ch.r_ms <= 0
                  THEN [ch EXCEPT !.env_level = 0, !.env_state = 0]
                  ELSE [ch EXCEPT !.env_state = 4]
             ELSE ch
    IN  [e EXCEPT !.gate_prev = ch.gate]

\* env_edge without the `else if !ch.gate && ch.gate_prev` branch
env_edge_rising_only(ch) ==
    LET e == IF ch.gate /\ ~ch.gate_prev
             THEN IF ch.a_ms <= 0
                  THEN [ch EXCEPT !.env_level = One, !.env_state = 2]
                  ELSE [ch EXCEPT !.env_state = 1]
             ELSE ch
    IN  [e EXCEPT !.gate_prev = ch.gate]

\* step_env, first half: gate edge detection, then gate_prev = gate
env_edge(ch) ==
    LET e == IF ch.gate /\ ~ch.gate_prev
             THEN IF ch.a_ms <= 0
                  THEN [ch EXCEPT !.env_level = One, !.env_state = 2]
                  ELSE [ch EXCEPT !.env_state = 1]
             ELSE IF ~ch.gate /\ ch.gate_prev
             THEN IF ch.r_ms <= 0
                  THEN [ch EXCEPT !.env_level = 0, !.env_state = 0]
                  ELSE [ch EXCEPT !.env_state = 4]
             ELSE ch
    IN  [e EXCEPT !.gate_prev = ch.gate]

\* env_stage whose Sustain arm goes on to Release instead of holding the level
env_stage_sustain_falls(ch) ==
    LET s == ch.s_lvl IN
    CASE ch.env_state = 1 ->
            LET l1 == IF ch.a_ms > 0 THEN Add(ch.env_level, StepOver(ch.a_ms)) ELSE One
            IN  IF Ge(l1, One) THEN [ch EXCEPT !.env_level = One, !.env_state = 2]
                             ELSE [ch EXCEPT !.env_level = l1]
      [] ch.env_state = 2 ->
            LET l1 == IF ch.d_ms > 0
                      THEN Sub(ch.env_level, Mul(StepOver(ch.d_ms), Max(Sub(One, s), 0)))
                      ELSE s
            IN  IF Le(l1, s) THEN [ch EXCEPT !.env_level = s, !.env_state = 3]
                           ELSE [ch EXCEPT !.env_level = l1]
      [] ch.env_state = 3 ->
            [ch EXCEPT !.env_level = s, !.env_state = 4]
      [] ch.env_state = 4 ->
            LET l1 == IF ch.r_ms > 0
                      THEN Sub(ch.env_level, Mul(StepOver(ch.r_ms), Max(ch.env_level, 0)))
                      ELSE 0
            IN  IF Le(l1, 0) THEN [ch EXCEPT !.env_level = 0, !.env_state = 0]
                           ELSE [ch EXCEPT !.env_level = l1]
      [] OTHER ->
            [ch EXCEPT !.env_level = IF ch.gate THEN One ELSE 0]

\* step_env, second half: match ch.env_state
env_stage(ch) ==
    LET s == ch.s_lvl IN
    CASE ch.env_state = 1 ->
            LET l1 == IF ch.a_ms > 0 THEN Add(ch.env_level, StepOver(ch.a_ms)) ELSE One
            IN  IF Ge(l1, One) THEN [ch EXCEPT !.env_level = One, !.env_state = 2]
                             ELSE [ch EXCEPT !.env_level = l1]
      [] ch.env_state = 2 ->
            LET l1 == IF ch.d_ms > 0
                      THEN Sub(ch.env_level, Mul(StepOver(ch.d_ms), Max(Sub(One, s), 0)))
                      ELSE s
            IN  IF Le(l1, s) THEN [ch EXCEPT !.env_level = s, !.env_state = 3]
                           ELSE [ch EXCEPT !.env_level = l1]
      [] ch.env_state = 3 ->
            IF ~ch.gate THEN [ch EXCEPT !.env_level = s, !.env_state = 4]
                        ELSE [ch EXCEPT !.env_level = s]
      [] ch.env_state = 4 ->
            LET l1 == IF ch.r_ms > 0
                      THEN Sub(ch.env_level, Mul(StepOver(ch.r_ms), Max(ch.env_level, 0)))
                      ELSE 0
            IN  IF Le(l1, 0) THEN [ch EXCEPT !.env_level = 0, !.env_state = 0]
                           ELSE [ch EXCEPT !.env_level = l1]
      [] OTHER ->
            [ch EXCEPT !.env_level = IF ch.gate THEN One ELSE 0]

step_env(ch) == env_stage(env_edge(ch))

\* 2^(r/12) in thousandths, r in 0..11
SemiRatio(r) ==
    CASE r = 0 -> 1000 [] r = 1 -> 1059 [] r = 2 -> 1122 [] r = 3 -> 1189
      [] r = 4 -> 1260 [] r = 5 -> 1335 [] r = 6 -> 1414 [] r = 7 -> 1498
      [] r = 8 -> 1587 [] r = 9 -> 1682 [] r = 10 -> 1782 [] OTHER -> 1888

\* hz_for_semitone, on milli-Hz: base * 2^(semi/12)
hz_for_semitone(base, semi) ==
    IF semi = 0 \/ IsNaN(base) THEN base
    ELSE LET q == semi \div 12
             r == semi % 12
             m == base * SemiRatio(r)
         IN  IF q >= 0 THEN RDiv(m * Pow2(q), 1000)
                       ELSE RDiv(m, 1000 * Pow2(-q))

\* arpeggio without the `if ch.arp_rate_hz > 0.0` test
arpeggio_any_rate(ch) ==
         LET p0 == ch.arp_phase + RDiv(One * ch.arp_rate_hz, SR)
             p1 == IF p0 >= One THEN p0 - One ELSE p0
             seg == (Max(3 * p1, 0) \div One) % 3
             semi == IF seg = 0 THEN ch.arp_a ELSE IF seg = 1 THEN ch.arp_b ELSE ch.arp_c
         IN  [ch |-> [ch EXCEPT !.arp_phase = p1],
              freq |-> IF semi # 0 THEN hz_for_semitone(Scale(1000, ch.base_freq), semi)
                                   ELSE Scale(1000, ch.base_freq)]


\* fill_buffer, "Arpeggio": the channel with arp_phase advanced, and the
\* instantaneous frequency in milli-Hz
arpeggio(ch) ==
    IF ch.arp_rate_hz > 0
    THEN LET p0 == ch.arp_phase + RDiv(One * ch.arp_rate_hz, SR)
             p1 == IF p0 >= One THEN p0 - One ELSE p0
             seg == (Max(3 * p1, 0) \div One) % 3
             semi == IF seg = 0 THEN ch.arp_a ELSE IF seg = 1 THEN ch.arp_b ELSE ch.arp_c
         IN  [ch |-> [ch EXCEPT !.arp_phase = p1],
              freq |-> IF semi # 0 THEN hz_for_semitone(Scale(1000, ch.base_freq), semi)
                                   ELSE Scale(1000, ch.base_freq)]
    ELSE [ch |-> ch, freq |-> Scale(1000, ch.base_freq)]

\* amp = (vol * env_level).clamp(0, 1)
amp_of(ch) == Clamp(Mul(ch.vol, ch.env_level), 0, One)

\* amp <= 0.0001
amp_skipped(amp) == Le(Scale(10000, amp), One)

\* lfsr_clock without `if ch.noise == 0 { ch.noise = 0x4000; }`
lfsr_clock_no_reseed(n) ==
    LET bit == ((n % 2) + ((n \div 2) % 2)) % 2
    IN  (((n \div 2) % 16384) + 16384 * bit) % 32768

\* one clock of the 15-bit LFSR
lfsr_clock(n) ==
    LET bit == ((n % 2) + ((n \div 2) % 2)) % 2
        n1 == (((n \div 2) % 16384) + 16384 * bit) % 32768
    IN  IF n1 = 0 THEN 16384 ELSE n1

\* fill_buffer, "match ch.kind": the channel after the oscillator step and
\* its contribution s * amp to the mix
oscillator(ch, freq, amp, t) ==
    CASE ch.kind \in {0, 1} ->
            LET p0 == IF IsNaN(freq) THEN NaN
                      ELSE Add(ch.phase, RDiv(freq * One, 1000 * SR))
                p1 == IF Ge(p0, One) THEN p0 - One ELSE p0
            IN  [ch |-> [ch EXCEPT !.phase = p1],
                 s |-> IF Lt(p1, ch.duty) THEN amp ELSE Neg(amp)]
      [] ch.kind = 2 ->
            LET nsteps == Max((1000 * SR) \div Max(freq, 1000), 1)
                \* `*t_counter as u32` is t itself while t < 2^32
                n1 == IF t % nsteps = 0 THEN lfsr_clock(ch.noise) ELSE ch.noise
            IN  [ch |-> [ch EXCEPT !.noise = n1],
                 s |-> IF n1 % 2 # 0 THEN amp ELSE Neg(amp)]
      [] OTHER -> [ch |-> ch, s |-> 0]

\* fill_buffer: the body of `for ch in loc.iter_mut()` for one channel
render_ch(ch0, t) ==
    LET c1 == step_env(ch0)
        ar == arpeggio(c1)
        amp == amp_of(ar.ch)
    IN  IF amp_skipped(amp) THEN [ch |-> ar.ch, s |-> 0]
                            ELSE oscillator(ar.ch, ar.freq, amp, t)

RECURSIVE SumSeq(_)
SumSeq(q) == IF q = <<>> THEN 0 ELSE Add(Head(q), SumSeq(Tail(q)))

\* fill_buffer: one iteration of `for frame in out.chunks_exact_mut(2)`
render_frame(l, t) ==
    LET r == [i \in DOMAIN l |-> render_ch(l[i], t)]
        mix == SumSeq([i \in DOMAIN l |-> r[i].s])
    IN  [loc |-> [i \in DOMAIN l |-> r[i].ch],
         sample |-> Clamp(IF IsNaN(mix) THEN NaN ELSE RDiv(mix, 4), -One, One)]

\* fill_buffer: n frames from local copy l, counter t
RECURSIVE render_frames(_, _, _, _)
render_frames(l, t, n, acc) ==
    IF n = 0 THEN [loc |-> l, t |-> t, out |-> acc]
    ELSE LET f == render_frame(l, t)
         IN  render_frames(f.loc, t + 1, n - 1, Append(acc, f.sample))

\* The renderer fill_buffer is compared with: the same loop without
\* `if amp <= 0.0001 { continue; }`, so that every channel's oscillator is
\* advanced and s * amp is added at every frame
render_ch_always(ch0, t) ==
    LET c1 == step_env(ch0)
        ar == arpeggio(c1)
    IN  oscillator(ar.ch, ar.freq, amp_of(ar.ch), t)

render_frame_always(l, t) ==
    LET r == [i \in DOMAIN l |-> render_ch_always(l[i], t)]
        mix == SumSeq([i \in DOMAIN l |-> r[i].s])
    IN  [loc |-> [i \in DOMAIN l |-> r[i].ch],
         sample |-> Clamp(IF IsNaN(mix) THEN NaN ELSE RDiv(mix, 4), -One, One)]

RECURSIVE render_frames_always(_, _, _, _)
render_frames_always(l, t, n, acc) ==
    IF n = 0 THEN [loc |-> l, t |-> t, out |-> acc]
    ELSE LET f == render_frame_always(l, t)
         IN  render_frames_always(f.loc, t + 1, n - 1, Append(acc, f.sample))

---------------------------------------------------------------------------
(* Audio parameter blocks a cartridge may publish *)

WPulse == WireCh(0, 2, One, One \div 2, 1, 250, 500, One \div 2, 500, 0, 7, 12, 3)
WNoise == WireCh(2, 4, One \div 2, 0, 1, 0, 0, One, 0, 0, 0, 0, 0)
WOff == WireCh(0, 2, One, One \div 2, 0, 250, 500, One \div 2, 500, 0, 7, 12, 3)
\* values outside the documented ranges
WWild == WireCh(1, -3, 2 * One, One \div 4, 2, -5, -1, 2 * One, -7, -12, 0, 5, -1)

BlockA == <<WPulse, WNoise, WOff, WWild>>
BlockB == <<WOff, WPulse, WWild, WNoise>>
BlockC == <<WNoise, WOff, WPulse, WOff>>
WireBlocks == {BlockA, BlockB, BlockC}

\* zero attack in front of a real decay
WSnap == WireCh(0, 2, One, One \div 2, 1, 0, 500, One \div 2, 0, 0, 0, 0, 0)
\* f32 fields holding NaN bit patterns
WNaNSustain == WireCh(0, 2, One, One \div 2, 1, 0, 0, NaN, 0, 0, 0, 0, 0)
WNaNVol == WireCh(1, 2, NaN, One \div 2, 0, 0, 0, One, 0, 0, 0, 0, 0)
\* four pulse channels at full volume, same frequency and duty
WLoud == WireCh(0, 2, 2 * One, One \div 2, 1, 0, 0, One, 0, 5, 7, 12, 0)

BlockD == <<WSnap, WOff, WNaNSustain, WNaNVol>>
\* an audio block of zero bytes, but for one note on channel 0 that is held
\* (NoteOn) and let go (NoteOff)
WSilent == WireCh(0, 0, 0, 0, 0, 0, 0, 0, 0, 0, 0, 0, 0)
NoteOn == <<WPulse, WSilent, WSilent, WSilent>>
NoteOff == <<WOff, WSilent, WSilent, WSilent>>
NoteBlocks == {NoteOn, NoteOff}
BlockE == <<WLoud, WLoud, WLoud, WLoud>>
EnvBlocks == {BlockA, BlockB, BlockD, BlockE}

---------------------------------------------------------------------------
(* Audio domain: set_params against the render callback *)

DefaultChannels == [i \in ChIdx |-> HostChDefault]

InitAudio ==
    /\ channels = DefaultChannels
    /\ loc = DefaultChannels
    /\ rpc = "idle"
    /\ t_counter = 0
    /\ out = <<>>
    /\ applied = <<>>
    /\ op = "new"
    /\ lock = "free"
    /\ shadow = DefaultChannels

\* set_params taking the lock anew for each channel: a call stores one
\* channel's control values at a time
SetParamsChannelwise(src) ==
    /\ lock = "free"
    /\ \E i \in ChIdx : channels' = [channels EXCEPT ![i] = set_params_ch(@, src[i])]
    /\ applied' = src
    /\ op' = "set_params"
    /\ UNCHANGED <<loc, rpc, t_counter, out, lock, shadow>>

\* eng.set_params(&chans): channels.lock() returns once the mutex is free, the
\* whole loop runs under the guard, and the guard is dropped when the call
\* returns; the call has no other code
SetParams(src) ==
    /\ lock = "free"
    /\ channels' = set_params(channels, src)
    /\ applied' = src
    /\ op' = "set_params"
    /\ UNCHANGED <<loc, rpc, t_counter, out, lock, shadow>>

\* RenderSnapshot that keeps the guard alive after the copy
\* (`let src = channels.lock()` bound for the whole function)
RenderSnapshotKeepsGuard ==
    /\ rpc = "locked_snapshot"
    /\ loc' = channels
    /\ rpc' = "synth"
    /\ op' = "snapshot"
    /\ UNCHANGED <<channels, t_counter, out, applied, lock, shadow>>

\* fill_buffer: channels.lock() returns, at 1) and at 3).  The callback belongs
\* to the stream AudioEngine::new built and started; without the engine there
\* is no stream.
RenderLock ==
    /\ audio_engine
    /\ lock = "free"
    /\ \/ rpc = "idle" /\ t_counter < MaxT /\ rpc' = "locked_snapshot"
       \/ rpc = "writeback" /\ rpc' = "locked_writeback"
    /\ lock' = "audio"
    /\ op' = "lock"
    /\ UNCHANGED <<channels, loc, t_counter, out, applied, shadow>>

\* fill_buffer 1): loc.copy_from_slice(&*src) under the guard, which is
\* dropped at the end of the `if let` block
RenderSnapshot ==
    /\ rpc = "locked_snapshot"
    /\ loc' = channels
    /\ rpc' = "synth"
    /\ lock' = "free"
    /\ op' = "snapshot"
    /\ UNCHANGED <<channels, t_counter, out, applied, shadow>>

\* fill_buffer 2): the frame loop over the local copy, lock released
RenderSynth(n) ==
    /\ rpc = "synth"
    /\ LET r == render_frames(loc, t_counter, n, <<>>)
       IN  /\ loc' = r.loc
           /\ t_counter' = r.t
           /\ out' = r.out
    /\ rpc' = "writeback"
    /\ op' = "synth"
    /\ UNCHANGED <<channels, applied, lock, shadow>>

\* fill_buffer 3): *dst = loc under the guard, dropped at the end of the block
RenderWriteBack ==
    /\ rpc = "locked_writeback"
    /\ channels' = loc
    /\ rpc' = "idle"
    /\ lock' = "free"
    /\ op' = "writeback"
    /\ UNCHANGED <<loc, t_counter, out, applied, shadow>>


---------------------------------------------------------------------------
(* Cartridge binaries and module instances *)

\* 4 channels * 13 fields * 4 bytes
WireBytes == 4 * 13 * 4
\* cart.w * cart.h * 4, the length of pixels.frame_mut()
FrameBytes == 160 * 144 * 4
\* size of the module's linear memory
MemBytes == 2 * 65536

RequiredExports == {"oxido_init", "oxido_update", "oxido_draw_ptr",
                    "oxido_draw_len", "oxido_input_set"}
AudioExports == {"oxido_audio_state_ptr", "oxido_audio_state_len"}
AllExports == {"memory"} \cup RequiredExports \cup AudioExports

\* What the host can observe of a cartridge binary: whether it compiles and
\* instantiates, what it exports, which entry points trap, and the values its
\* pointer/length entry points return.
Bin(compiles, exports, traps, dptr, dlen, aptr, alen, block) ==
    [compiles |-> compiles, exports |-> exports, traps |-> traps,
     draw_ptr |-> dptr, draw_len |-> dlen, mem_size |-> MemBytes,
     audio_ptr |-> aptr, audio_len |-> alen, block |-> block]

GoodBin(block) == Bin(TRUE, AllExports, {}, 1024, FrameBytes, 100000, WireBytes, block)

Bins == <<
    GoodBin(BlockA),
    GoodBin(BlockB),
    \* an optional audio entry point is missing
    Bin(TRUE, AllExports \ {"oxido_audio_state_len"}, {}, 1024, FrameBytes, 100000, WireBytes, BlockA),
    \* not a loadable module
    Bin(FALSE, AllExports, {}, 1024, FrameBytes, 100000, WireBytes, BlockA),
    \* a required entry point is missing
    Bin(TRUE, AllExports \ {"oxido_update"}, {}, 1024, FrameBytes, 100000, WireBytes, BlockA),
    \* entry points that trap
    Bin(TRUE, AllExports, {"oxido_init"}, 1024, FrameBytes, 100000, WireBytes, BlockA),
    Bin(TRUE, AllExports, {"oxido_input_set", "oxido_update"}, 1024, FrameBytes, 100000, WireBytes, BlockA),
    Bin(TRUE, AllExports, {"oxido_draw_ptr"}, 1024, FrameBytes, 100000, WireBytes, BlockA),
    Bin(TRUE, AllExports, {"oxido_draw_len"}, 1024, FrameBytes, 100000, WireBytes, BlockA),
    Bin(TRUE, AllExports, {"oxido_audio_state_len"}, 1024, FrameBytes, 100000, WireBytes, BlockA),
    \* framebuffer reaching past the end of memory
    Bin(TRUE, AllExports, {}, MemBytes - 100, FrameBytes, 100000, WireBytes, BlockA),
    \* audio block shorter than the wire size
    Bin(TRUE, AllExports, {}, 1024, FrameBytes, 100000, 100, BlockC),
    \* audio block reaching past the end of memory
    Bin(TRUE, AllExports, {}, 1024, FrameBytes, MemBytes - 100, WireBytes, BlockC),
    \* the memory export is missing
    Bin(TRUE, AllExports \ {"memory"}, {}, 1024, FrameBytes, 100000, WireBytes, BlockA),
    \* both optional audio entry points are missing
    Bin(TRUE, AllExports \ AudioExports, {}, 1024, FrameBytes, 100000, WireBytes, BlockB)
>>

BinIds == DOMAIN Bins

\* instantiate_all with .ok() in place of `?` on the memory export and the
\* five required functions
instantiate_all_lenient(b, g) ==
    IF Bins[b].compiles
    THEN [ok |-> TRUE,
          handle |-> [store |-> g, memory |-> g, init |-> g, update |-> g,
                      draw_ptr |-> g, draw_len |-> g, input_set |-> g,
                      audio_ptr_fn |-> IF "oxido_audio_state_ptr" \in Bins[b].exports
                                       THEN g ELSE 0,
                      audio_len_fn |-> IF "oxido_audio_state_len" \in Bins[b].exports
                                       THEN g ELSE 0],
          inst |-> [gen |-> g, bin |-> b, inited |-> FALSE, frame_no |-> 0, bits |-> 0]]
    ELSE [ok |-> FALSE]

\* instantiate_all: Module::from_file, instantiate, then the exports are
\* resolved; the `?` on memory and on the five required functions returns
\* the error, the two audio functions are .ok().  g tags the new instance.
instantiate_all(b, g) ==
    IF Bins[b].compiles /\ "memory" \in Bins[b].exports
                        /\ RequiredExports \subseteq Bins[b].exports
    THEN [ok |-> TRUE,
          handle |-> [store |-> g, memory |-> g, init |-> g, update |-> g,
                      draw_ptr |-> g, draw_len |-> g, input_set |-> g,
                      audio_ptr_fn |-> IF "oxido_audio_state_ptr" \in Bins[b].exports
                                       THEN g ELSE 0,
                      audio_len_fn |-> IF "oxido_audio_state_len" \in Bins[b].exports
                                       THEN g ELSE 0],
          inst |-> [gen |-> g, bin |-> b, inited |-> FALSE, frame_no |-> 0, bits |-> 0]]
    ELSE [ok |-> FALSE]

NoHandle == [store |-> 0, memory |-> 0, init |-> 0, update |-> 0,
             draw_ptr |-> 0, draw_len |-> 0, input_set |-> 0,
             audio_ptr_fn |-> 0, audio_len_fn |-> 0]
NoInst == [gen |-> 0, bin |-> 0, inited |-> FALSE, frame_no |-> 0, bits |-> 0]

\* TypedFunc::call: Err when the entry point traps
Traps(i, name) == name \in Bins[i.bin].traps

\* effect of a call that returns Ok on the instance's store
call_effect(i, name, arg) ==
    CASE name = "oxido_init" -> [i EXCEPT !.inited = TRUE]
      [] name = "oxido_input_set" -> [i EXCEPT !.bits = arg]
      \* the simulation alternates between two frames
      [] name = "oxido_update" -> [i EXCEPT !.frame_no = 1 - @]
      [] OTHER -> i

\* the bytes the instance holds in its framebuffer
FrameData(i) == [bin |-> i.bin, inited |-> i.inited, frame_no |-> i.frame_no,
                 bits |-> i.bits]
\* the frame of Pixels::new, before the first copy
BlankFrame == [bin |-> 0, inited |-> FALSE, frame_no |-> 0, bits |-> 0]


\* the cartridge's AudioCh array as 32-bit words, in its #[repr(C)] order
encode_ch(w) == <<w.kind, w.base_freq, w.vol, w.duty, w.gate,
                  w.a_ms, w.d_ms, w.s_lvl, w.r_ms,
                  w.arp_a, w.arp_b, w.arp_c, w.arp_rate_hz>>
AudioWords(i) ==
    LET b == Bins[i.bin].block
    IN  encode_ch(b[1]) \o encode_ch(b[2]) \o encode_ch(b[3]) \o encode_ch(b[4])

\* run(), audio block: the rd_u32 / rd_f32 / rd_i32 sequence for channel i
\* (0-based), 13 words from word 13 * i on
decode_ch(words, i) ==
    LET o == 13 * i
    IN  WireCh(words[o + 1], words[o + 2], words[o + 3], words[o + 4], words[o + 5],
               words[o + 6], words[o + 7], words[o + 8], words[o + 9],
               words[o + 10], words[o + 11], words[o + 12], words[o + 13])
decode_block(words) == [i \in ChIdx |-> decode_ch(words, i - 1)]

---------------------------------------------------------------------------
(* run(): the MainEventsCleared handler, one phase per operator.  Each phase
   maps the handler's running state h to the state after the phase:
   h.status is "running" or "panicked", h.calls the module calls made so far
   (entry point, instance, returned Ok), h.reports the lines written to
   stderr, h.mod_time the modification time the reload check read. *)

Called(h, name, g) ==
    [h EXCEPT !.calls = Append(@, <<name, g, ~Traps(h.inst, name)>>)]

\* `let _ = f.call(..)`: the call is made, its Result is dropped
call_ignored(h, name, g, arg) ==
    LET h1 == Called(h, name, g)
    IN  IF Traps(h.inst, name) THEN h1
        ELSE [h1 EXCEPT !.inst = call_effect(h.inst, name, arg)]

\* reload_install that also puts the engine's channel record back to its defaults
reload_install_resets_audio(h, r, mod_time) ==
    LET h1 == [h EXCEPT !.handle = r.handle, !.inst = r.inst, !.next_gen = @ + 1,
                        !.channels = [i \in ChIdx |-> HostChDefault]]
        h2 == [h1 EXCEPT !.calls = Append(@, <<"oxido_init", h1.handle.init,
                                               ~Traps(h1.inst, "oxido_init")>>),
                         !.inst = IF Traps(h1.inst, "oxido_init") THEN @
                                  ELSE [@ EXCEPT !.inited = TRUE]]
    IN  [h2 EXCEPT !.last_mtime = mod_time,
                   !.reload_count = @ + 1,
                   !.reports = Append(@, "reloaded"),
                   !.reload = "ok"]

\* reload_install without the init.call
reload_install_without_init(h, r, mod_time) ==
    [h EXCEPT !.handle = r.handle, !.inst = r.inst, !.next_gen = @ + 1,
              !.last_mtime = mod_time,
              !.reload_count = @ + 1,
              !.reports = Append(@, "reloaded"),
              !.reload = "ok"]

\* reload_install without `update = upd`: the old instance's update stays bound
reload_install_keeps_update(h, r, mod_time) ==
    LET h1 == [h EXCEPT !.handle = [r.handle EXCEPT !.update = h.handle.update],
                        !.inst = r.inst, !.next_gen = @ + 1]
        h2 == [h1 EXCEPT !.calls = Append(@, <<"oxido_init", h1.handle.init,
                                               ~Traps(h1.inst, "oxido_init")>>),
                         !.inst = IF Traps(h1.inst, "oxido_init") THEN @
                                  ELSE [@ EXCEPT !.inited = TRUE]]
    IN  [h2 EXCEPT !.last_mtime = mod_time,
                   !.reload_count = @ + 1,
                   !.reports = Append(@, "reloaded"),
                   !.reload = "ok"]

\* the arm Ok((s, i, mem, ini, upd, dptr, dlen, iset, ap, al)) of the reload match
reload_install(h, r, mod_time) ==
    LET h1 == [h EXCEPT !.handle = r.handle, !.inst = r.inst, !.next_gen = @ + 1]
        h2 == call_ignored(h1, "oxido_init", h1.handle.init, 0)
    IN  [h2 EXCEPT !.last_mtime = mod_time,
                   !.reload_count = @ + 1,
                   !.reports = Append(@, "reloaded"),
                   !.reload = "ok"]

\* reload_rejected that counts the attempt
reload_rejected_counted(h) ==
    [h EXCEPT !.reports = Append(@, "reload failed"), !.reload = "failed",
              !.reload_count = @ + 1]

\* the arm `_ => eprintln!("reload failed; keeping the previous version")`
reload_rejected(h) ==
    [h EXCEPT !.reports = Append(@, "reload failed"), !.reload = "failed"]

\* hot_reload with `last_mtime = mod_time` moved in front of the match, so
\* that a rejected module is stamped too
hot_reload_stamps_first(h, f, meta_ok) ==
    LET h0 == [h EXCEPT !.mod_time = IF meta_ok THEN f.mtime ELSE 0]
    IN  IF meta_ok /\ f.mtime > h.last_mtime
        THEN LET r == instantiate_all(f.bin, h.next_gen)
             IN  IF r.ok THEN reload_install(h0, r, f.mtime)
                 ELSE [reload_rejected(h0) EXCEPT !.last_mtime = f.mtime]
        ELSE h0

\* "Hot-reload": fs::metadata, modified(), mod_time > last_mtime, instantiate_all
hot_reload(h, f, meta_ok) ==
    LET h0 == [h EXCEPT !.mod_time = IF meta_ok THEN f.mtime ELSE 0]
    IN  IF meta_ok /\ f.mtime > h.last_mtime
        THEN LET r == instantiate_all(f.bin, h.next_gen)
             IN  IF r.ok THEN reload_install(h0, r, f.mtime) ELSE reload_rejected(h0)
        ELSE h0

\* "input + update"
input_update(h, bits) ==
    call_ignored(call_ignored(h, "oxido_input_set", h.handle.input_set, bits),
                 "oxido_update", h.handle.update, 0)

Panicked(h) == [h EXCEPT !.status = "panicked"]

\* &data[ptr..ptr + len] panics unless the range lies inside the memory
slice_ok(i, ptr, len) == ptr + len <= Bins[i.bin].mem_size

\* "video": draw_ptr().unwrap(), draw_len().unwrap(), the slice, copy_from_slice
video(h) ==
    LET h1 == Called(h, "oxido_draw_ptr", h.handle.draw_ptr)
        h2 == Called(h1, "oxido_draw_len", h.handle.draw_len)
        ptr == Bins[h.inst.bin].draw_ptr
        len == Bins[h.inst.bin].draw_len
    IN  IF Traps(h.inst, "oxido_draw_ptr") THEN Panicked(h1)
        ELSE IF Traps(h.inst, "oxido_draw_len") THEN Panicked(h2)
        ELSE IF ~slice_ok(h.inst, ptr, len) THEN Panicked(h2)
        ELSE IF len # FrameBytes THEN Panicked(h2)
        ELSE [h2 EXCEPT !.pixels = FrameData(h.inst), !.copied = TRUE]

\* audio_block without the `blen >= 4 * 13 * 4` test
audio_block_any_len(h, ptr, blen) ==
    IF ~slice_ok(h.inst, ptr, blen) THEN Panicked(h)
    ELSE LET chans == decode_block(AudioWords(h.inst))
         IN  [h EXCEPT !.channels = set_params(@, chans),
                       !.applied = chans,
                       !.audio = "set"]

\* "Audio: read game state and set parameters", after both calls returned Ok
audio_block(h, ptr, blen) ==
    IF blen >= WireBytes
    THEN IF ~slice_ok(h.inst, ptr, blen) THEN Panicked(h)
         ELSE LET chans == decode_block(AudioWords(h.inst))
              IN  [h EXCEPT !.channels = set_params(@, chans),
                            !.applied = chans,
                            !.audio = "set"]
    ELSE h

\* audio whose guard does not look at the engine
audio_without_engine_test(h, eng) ==
    IF h.handle.audio_ptr_fn # 0 /\ h.handle.audio_len_fn # 0
    THEN LET h1 == Called(h, "oxido_audio_state_ptr", h.handle.audio_ptr_fn)
             h2 == Called(h1, "oxido_audio_state_len", h.handle.audio_len_fn)
         IN  IF ~Traps(h.inst, "oxido_audio_state_ptr")
                /\ ~Traps(h.inst, "oxido_audio_state_len")
             THEN audio_block(h2, Bins[h.inst.bin].audio_ptr, Bins[h.inst.bin].audio_len)
             ELSE h2
    ELSE h

\* the `if let (Some(ap), Some(al), Some(eng))` guard, then both calls
audio(h, eng) ==
    IF h.handle.audio_ptr_fn # 0 /\ h.handle.audio_len_fn # 0 /\ eng
    THEN LET h1 == Called(h, "oxido_audio_state_ptr", h.handle.audio_ptr_fn)
             h2 == Called(h1, "oxido_audio_state_len", h.handle.audio_len_fn)
         IN  IF ~Traps(h.inst, "oxido_audio_state_ptr")
                /\ ~Traps(h.inst, "oxido_audio_state_len")
             THEN audio_block(h2, Bins[h.inst.bin].audio_ptr, Bins[h.inst.bin].audio_len)
             ELSE h2
    ELSE h

\* the handler with "input + update" in front of "Hot-reload"
main_events_cleared_input_first(h, f, meta_ok, bits, eng) ==
    LET h1 == input_update(h, bits)
        h2 == hot_reload(h1, f, meta_ok)
        h3 == video(h2)
    IN  IF h3.status = "panicked" THEN h3 ELSE audio(h3, eng)

\* the handler body in order; a panic ends it
main_events_cleared(h, f, meta_ok, bits, eng) ==
    LET h1 == hot_reload(h, f, meta_ok)
        h2 == input_update(h1, bits)
        h3 == video(h2)
    IN  IF h3.status = "panicked" THEN h3 ELSE audio(h3, eng)


---------------------------------------------------------------------------
(* run(): input events *)

\* the match on input.virtual_keycode
bit_from_keycode(vk) ==
    CASE vk = "Up" -> 1 [] vk = "Down" -> 2 [] vk = "Left" -> 4 [] vk = "Right" -> 8
      [] vk = "Z" -> 16 [] vk = "X" -> 32 [] vk = "Return" -> 64
      [] vk \in {"LShift", "RShift"} -> 128
      [] OTHER -> 0

bit_from_scancode(sc) ==
    CASE sc = 103 -> 1 [] sc = 108 -> 2 [] sc = 105 -> 4 [] sc = 106 -> 8
      [] sc = 44 -> 16 [] sc = 45 -> 32 [] sc = 28 -> 64
      [] sc \in {42, 54} -> 128
      [] OTHER -> 0

\* x has the single bit b set
HasBit(x, b) == (x \div b) % 2 = 1
\* input_bits |= bit, input_bits &= !bit for a single bit
BitOr(x, b) == IF HasBit(x, b) THEN x ELSE x + b
BitAndNot(x, b) == IF HasBit(x, b) THEN x - b ELSE x

\* the WindowEvent::KeyboardInput arm
keyboard_input(bits, vk, sc, pressed) ==
    LET b0 == bit_from_keycode(vk)
        bit == IF b0 = 0 THEN bit_from_scancode(sc) ELSE b0
    IN  IF bit # 0 THEN IF pressed THEN BitOr(bits, bit) ELSE BitAndNot(bits, bit)
                   ELSE bits

\* keys of the keyboard, as the <<virtual_keycode, scancode>> of their events:
\* Up, Return, both shift keys, a key known by its scancode only (44), and a
\* key that is not mapped to a button
Keys == {<<"Up", 103>>, <<"Return", 28>>, <<"LShift", 42>>, <<"RShift", 54>>,
         <<"None", 44>>, <<"None", 1>>}
\* the one key pressed while cartridges are being reloaded
HostKeys == {<<"LShift", 42>>}

---------------------------------------------------------------------------
(* run(): start-up and the event loop *)

NoTick == [reload |-> "none", mod_time |-> 0, calls |-> <<>>, reports |-> <<>>,
           copied |-> FALSE, audio |-> "skipped"]

InitHost ==
    /\ host = "init"
    /\ file \in [bin : BinIds, mtime : {1}]
    /\ handle = NoHandle
    /\ inst = NoInst
    /\ next_gen = 1
    /\ last_mtime = 0
    /\ reload_count = 0
    /\ input_bits = 0
    /\ held = {}
    /\ init_calls = 0
    /\ audio_engine = FALSE
    /\ pixels = BlankFrame
    /\ tick = NoTick

Init == InitAudio /\ InitHost

\* run() up to event_loop.run: window and pixels, instantiate_all(..)?,
\* init.call(..)?, last_mtime (UNIX_EPOCH when the metadata cannot be read),
\* AudioEngine::new()
Start(gfx_ok, meta_ok, audio_ok) ==
    /\ host = "init"
    /\ LET r == instantiate_all(file.bin, next_gen)
       IN  /\ init_calls' = IF gfx_ok /\ r.ok THEN 1 ELSE 0
           /\ IF gfx_ok /\ r.ok /\ ~Traps(r.inst, "oxido_init")
              THEN /\ host' = "running"
                   /\ handle' = r.handle
                   /\ inst' = call_effect(r.inst, "oxido_init", 0)
                   /\ next_gen' = next_gen + 1
                   /\ last_mtime' = IF meta_ok THEN file.mtime ELSE 0
                   /\ audio_engine' = audio_ok
                   /\ tick' = [NoTick EXCEPT !.calls = <<<<"oxido_init", r.handle.init, TRUE>>>>]
              ELSE /\ host' = "failed"
                   /\ UNCHANGED <<handle, inst, next_gen, last_mtime, audio_engine, tick>>
    /\ UNCHANGED <<file, reload_count, input_bits, held, pixels>>
    /\ UNCHANGED avars

\* the init.call(..) entries of a call log
InitCalls(calls) == Cardinality({k \in DOMAIN calls : calls[k][1] = "oxido_init"})

\* the state the handler starts from
HostState ==
    [handle |-> handle, inst |-> inst, next_gen |-> next_gen,
     last_mtime |-> last_mtime, reload_count |-> reload_count,
     pixels |-> pixels, channels |-> channels, applied |-> applied,
     status |-> "running", reload |-> "none", mod_time |-> 0, calls |-> <<>>,
     reports |-> <<>>, copied |-> FALSE, audio |-> "skipped"]

\* Event::MainEventsCleared
Tick(meta_ok) ==
    /\ host = "running"
    /\ \E h \in {main_events_cleared(HostState, file, meta_ok, input_bits, audio_engine)} :
           /\ host' = h.status
           /\ handle' = h.handle
           /\ inst' = h.inst
           /\ next_gen' = h.next_gen
           /\ last_mtime' = h.last_mtime
           /\ reload_count' = h.reload_count
           /\ init_calls' = init_calls + InitCalls(h.calls)
           /\ pixels' = h.pixels
           /\ channels' = h.channels
           /\ applied' = h.applied
           /\ op' = IF h.audio = "set" THEN "set_params" ELSE op
           /\ tick' = [reload |-> h.reload, mod_time |-> h.mod_time,
                       calls |-> h.calls, reports |-> h.reports,
                       copied |-> h.copied, audio |-> h.audio]
    /\ UNCHANGED <<file, input_bits, held, audio_engine, loc, rpc, t_counter, out, lock, shadow>>

\* WindowEvent::KeyboardInput
KeyboardInput(k, pressed) ==
    /\ host = "running"
    /\ input_bits' = keyboard_input(input_bits, k[1], k[2], pressed)
    /\ held' = IF pressed THEN held \cup {k} ELSE held \ {k}
    /\ tick' = NoTick
    /\ UNCHANGED <<host, file, handle, inst, next_gen, last_mtime, reload_count,
                   init_calls, audio_engine, pixels>>
    /\ UNCHANGED avars

\* Focused(false) handled by the `_ => {}` arm
FocusLostKeepsBits ==
    /\ host = "running"
    /\ input_bits' = input_bits
    /\ held' = {}
    /\ tick' = NoTick
    /\ UNCHANGED <<host, file, handle, inst, next_gen, last_mtime, reload_count,
                   init_calls, audio_engine, pixels>>
    /\ UNCHANGED avars

\* WindowEvent::Focused(false)
FocusLost ==
    /\ host = "running"
    /\ input_bits' = 0
    /\ held' = {}
    /\ tick' = NoTick
    /\ UNCHANGED <<host, file, handle, inst, next_gen, last_mtime, reload_count,
                   init_calls, audio_engine, pixels>>
    /\ UNCHANGED avars

\* WindowEvent::CloseRequested
CloseRequested ==
    /\ host = "running"
    /\ host' = "exited"
    /\ tick' = NoTick
    /\ UNCHANGED <<file, handle, inst, next_gen, last_mtime, reload_count,
                   input_bits, held, init_calls, audio_engine, pixels>>
    /\ UNCHANGED avars

\* the cartridge file is rewritten: new contents, a modification time that
\* does not go back
TouchFile(b, m) ==
    /\ host = "running"
    /\ m >= file.mtime
    /\ file' = [bin |-> b, mtime |-> m]
    /\ file' # file
    /\ tick' = NoTick
    /\ UNCHANGED <<host, handle, inst, next_gen, last_mtime, reload_count,
                   input_bits, held, init_calls, audio_engine, pixels>>
    /\ UNCHANGED avars

Next ==
    \/ \E g \in BOOLEAN, m \in BOOLEAN, a \in BOOLEAN : Start(g, m, a)
    \/ \E m \in BOOLEAN : Tick(m)
    \/ \E k \in HostKeys, p \in BOOLEAN : KeyboardInput(k, p)
    \/ FocusLost
    \/ CloseRequested
    \/ \E b \in BinIds, m \in 1..MaxMtime : TouchFile(b, m)

Spec == Init /\ [][Next]_vars

\* the audio engine alone: parameter updates against the render callback
NextAudio ==
    \/ \E b \in WireBlocks : SetParams(b) /\ UNCHANGED hvars
    \/ RenderLock /\ UNCHANGED hvars
    \/ RenderSnapshot /\ UNCHANGED hvars
    \/ \E n \in 1..MaxFrames : RenderSynth(n) /\ UNCHANGED hvars
    \/ RenderWriteBack /\ UNCHANGED hvars

\* one whole fill_buffer call that no set_params call interrupts: snapshot,
\* n frames, write-back
FillBuffer(n) ==
    /\ audio_engine
    /\ rpc = "idle"
    /\ t_counter < MaxTEnv
    /\ \E r \in {render_frames(channels, t_counter, n, <<>>)} :
          /\ channels' = r.loc
          /\ loc' = r.loc
          /\ t_counter' = r.t
          /\ out' = r.out
    /\ op' = "fill_buffer"
    /\ UNCHANGED <<rpc, applied, lock, shadow>>

\* the envelope generator: parameter updates between whole buffers
NextEnv ==
    \/ \E b \in EnvBlocks : SetParams(b) /\ UNCHANGED hvars
    \/ \E n \in 1..MaxFrames : FillBuffer(n) /\ UNCHANGED hvars

\* run() has started the first cartridge and AudioEngine::new returned Some
InitEngine ==
    /\ InitAudio
    /\ host = "running"
    /\ file = [bin |-> 1, mtime |-> 1]
    /\ handle = instantiate_all(1, 1).handle
    /\ inst = call_effect(instantiate_all(1, 1).inst, "oxido_init", 0)
    /\ next_gen = 2
    /\ last_mtime = 1
    /\ reload_count = 0
    /\ input_bits = 0
    /\ held = {}
    /\ init_calls = 1
    /\ audio_engine = TRUE
    /\ pixels = BlankFrame
    /\ tick = NoTick

SpecAudio == InitEngine /\ [][NextAudio]_vars

SpecEnv == InitEngine /\ [][NextEnv]_vars

\* The two renderers side by side: every set_params call reaches both, and
\* every buffer is rendered by both from their own channel state
SetParamsBoth(src) ==
    /\ lock = "free"
    /\ channels' = set_params(channels, src)
    /\ shadow' = set_params(shadow, src)
    /\ applied' = src
    /\ op' = "set_params"
    /\ UNCHANGED <<loc, rpc, t_counter, out, lock>>

FillBufferBoth(n) ==
    /\ audio_engine
    /\ rpc = "idle"
    /\ t_counter < MaxTEnv
    /\ \E r \in {render_frames(channels, t_counter, n, <<>>)} :
          /\ channels' = r.loc
          /\ loc' = r.loc
          /\ t_counter' = r.t
          /\ out' = r.out
    /\ shadow' = render_frames_always(shadow, t_counter, n, <<>>).loc
    /\ op' = "fill_buffer"
    /\ UNCHANGED <<rpc, applied, lock>>

NextSkip ==
    \/ \E b \in EnvBlocks : SetParamsBoth(b) /\ UNCHANGED hvars
    \/ \E n \in 1..MaxFrames : FillBufferBoth(n) /\ UNCHANGED hvars

SpecSkip == InitEngine /\ [][NextSkip]_vars

\* The callback as the output stream drives it: the device asks for buffer
\* after buffer for as long as the stream lives, and t wraps
FillBufferForever(n) ==
    /\ audio_engine
    /\ rpc = "idle"
    /\ \E r \in {render_frames(channels, t_counter, n, <<>>)} :
          /\ channels' = r.loc
          /\ loc' = r.loc
          /\ t_counter' = r.t % TWrap
          /\ out' = r.out
    /\ op' = "fill_buffer"
    /\ UNCHANGED <<rpc, applied, lock, shadow>>

Callback == \E n \in 1..MaxFrames : FillBufferForever(n) /\ UNCHANGED hvars

NextRelease ==
    \/ \E b \in NoteBlocks : SetParams(b) /\ UNCHANGED hvars
    \/ Callback

\* what every Callback step, and no other step, does to op and t_counter
CallbackRuns ==
    /\ audio_engine
    /\ rpc = "idle"
    /\ op' = "fill_buffer"
    /\ t_counter' \in 0..(TWrap - 1)

\* the stream keeps calling back (weak fairness of the callback steps); the
\* cartridge may stop publishing parameters at any time
SpecRelease ==
    InitEngine /\ [][NextRelease]_vars /\ WF_<<op, t_counter>>(CallbackRuns)

\* a noise channel that sounds at full level and is clocked at every frame
\* (freq = sr gives nsteps = 1), its shift register holding n
NoiseCh(n) ==
    [HostChDefault EXCEPT !.kind = 2, !.base_freq = SR, !.vol = One,
                          !.gate = TRUE, !.gate_prev = TRUE, !.s_lvl = One,
                          !.env_level = One, !.env_state = 3, !.noise = n]

\* the shift register alone: the register starts at any 15-bit value (0 is
\* the default; the others are the values the 32767-cycle passes through)
InitNoise ==
    /\ \E n \in 0..LfsrMask :
          /\ channels = [DefaultChannels EXCEPT ![1] = NoiseCh(n)]
          /\ loc = channels
    /\ rpc = "idle"
    /\ t_counter = 0
    /\ out = <<>>
    /\ applied = <<>>
    /\ op = "new"
    /\ lock = "free"
    /\ shadow = DefaultChannels
    /\ host = "running"
    /\ file = [bin |-> 1, mtime |-> 1]
    /\ handle = instantiate_all(1, 1).handle
    /\ inst = call_effect(instantiate_all(1, 1).inst, "oxido_init", 0)
    /\ next_gen = 2
    /\ last_mtime = 1
    /\ reload_count = 0
    /\ input_bits = 0
    /\ held = {}
    /\ init_calls = 1
    /\ audio_engine = TRUE
    /\ pixels = BlankFrame
    /\ tick = NoTick

\* one clock from each register value: the value after it is again one of
\* the initial values
NextNoise == t_counter = 0 /\ FillBuffer(1) /\ UNCHANGED hvars

SpecNoise == InitNoise /\ [][NextNoise]_vars

\* the keyboard: key and focus events between the ticks of one cartridge
NextInput ==
    \/ \E k \in Keys, p \in BOOLEAN : KeyboardInput(k, p)
    \/ FocusLost
    \/ \E m \in BOOLEAN : Tick(m)

SpecInput == InitEngine /\ [][NextInput]_vars

\* the binaries the cartridge file is rewritten with while the engine renders:
\* a good one, one that does not load, one whose init traps
ReloadBins == {2, 4, 6}

\* reloads while the audio engine renders: ticks, file changes, key events and
\* whole buffers
NextReload ==
    \/ \E m \in BOOLEAN : Tick(m)
    \/ \E b \in ReloadBins, m \in 1..MaxMtime : TouchFile(b, m)
    \/ \E k \in HostKeys, p \in BOOLEAN : KeyboardInput(k, p)
    \/ \E n \in 1..MaxFrames : FillBuffer(n) /\ UNCHANGED hvars

SpecReload == InitEngine /\ [][NextReload]_vars


---------------------------------------------------------------------------
(* Properties of the audio engine (SpecAudio) *)

IsSetParams == \E b \in WireBlocks : SetParams(b)

\* ch holds the control values a set_params call with wire record w stores
HasParams(ch, w) == Control(set_params_ch(ch, w)) = Control(ch)

\* C1: for every channel and every wire block, set_params leaves phase,
\* noise, env_level, env_state, gate_prev and arp_phase exactly as they were
\* immediately before the call.
C1_SetParamsKeepsSynthesisState ==
    [][IsSetParams => \A i \in ChIdx : Synth(channels'[i]) = Synth(channels[i])]_vars

\* set_params has just returned on a record whose channel i the render callback
\* has already advanced (envelope running, oscillator moved), and the call
\* changed that channel's gate
C1_Witness ==
    /\ op = "set_params"
    /\ \E i \in ChIdx :
          /\ channels[i].env_state # 0
          /\ channels[i].env_level > 0
          /\ channels[i].phase > 0
          /\ channels[i].gate # channels[i].gate_prev
    /\ \E i \in ChIdx : channels[i].noise # 0

\* C2: once a set_params call has returned, every render that starts after it
\* (until the next set_params) synthesizes with the control parameters of that
\* call: the snapshot a render takes holds the parameters of the latest call.
C2_RenderSeesLatestParams ==
    [][(RenderSnapshot /\ applied # <<>>)
          => \A i \in ChIdx : HasParams(loc'[i], applied[i])]_vars

\* C3: in the shared record, control fields change only by set_params,
\* synthesis-state fields change only by the render callback, and the render
\* callback's write-back never changes a control field.
C3_EachHalfHasOneWriter ==
    [][/\ (\E i \in ChIdx : Control(channels'[i]) # Control(channels[i])) => IsSetParams
       /\ (\E i \in ChIdx : Synth(channels'[i]) # Synth(channels[i])) => RenderWriteBack
       /\ RenderWriteBack => \A i \in ChIdx : Control(channels'[i]) = Control(channels[i])
      ]_vars


---------------------------------------------------------------------------
(* Properties of the scheduler loop and hot reload (Spec) *)

\* (every Tick step leaves a call log in tick, and only Tick steps do: the
\* first conjunct spares running the handler against the other steps)
IsTick == tick' # NoTick /\ \E m \in BOOLEAN : Tick(m)

\* the handler run from the same state with the file's modification time
\* equal to last_mtime, so that no reload is attempted
QuietTick ==
    main_events_cleared(HostState, [file EXCEPT !.mtime = last_mtime], TRUE,
                        input_bits, audio_engine)

\* a call of entry point `name` in the tick log that trapped
TrappedIn(t, name) == \E k \in DOMAIN t.calls : t.calls[k][1] = name /\ ~t.calls[k][3]

\* C4: when a hot-reload attempt fails in instantiate_all, the installed
\* handle, last_mtime and reload_count are unchanged, and the tick goes on with
\* input_set, update and the draw calls on the previous instance: instance
\* state, frame and loop status are those of the same tick without the attempt.
C4_FailedLoadKeepsModule ==
    [][(tick'.reload = "failed" /\ IsTick) =>
          /\ handle' = handle
          /\ last_mtime' = last_mtime
          /\ reload_count' = reload_count
          /\ Len(tick'.calls) >= 3
          /\ tick'.calls[1][1] = "oxido_input_set"
          /\ tick'.calls[2][1] = "oxido_update"
          /\ tick'.calls[3][1] = "oxido_draw_ptr"
          /\ \A k \in DOMAIN tick'.calls : tick'.calls[k][2] = handle.store
          /\ inst' = QuietTick.inst
          /\ pixels' = QuietTick.pixels
          /\ host' = QuietTick.status
          /\ tick'.calls = QuietTick.calls
      ]_vars

\* a tick whose reload attempt was rejected has drawn the next frame of the
\* module installed before it, after at least one earlier frame of that module
C4_Witness ==
    /\ tick.reload = "failed"
    /\ tick.copied
    /\ host = "running"
    /\ ~Bins[file.bin].compiles
    /\ inst.bin # file.bin
    /\ pixels = FrameData(inst)
    /\ inst.frame_no = 0
    /\ reload_count = 0

\* C5: when the reloaded module loads but its init traps, the previous handle
\* stays installed and last_mtime and reload_count are not updated.
C5_InitTrapKeepsModule ==
    [][(TrappedIn(tick', "oxido_init") /\ IsTick) =>
          /\ handle' = handle
          /\ last_mtime' = last_mtime
          /\ reload_count' = reload_count
      ]_vars

\* C6: after a failed reload attempt no further attempt is made until the
\* file's modification time changes: the tick after a failed attempt, with the
\* modification time that attempt read still in place, attempts nothing.
C6_NoRetryUntilFileChanges ==
    [][(tick.reload = "failed" /\ tick.mod_time = file.mtime /\ IsTick)
          => tick'.reload = "none"]_vars

\* the instance the tick's draw and audio calls are made on is inst': a reload
\* comes first in the tick
DrawOutOfBounds(i) ==
    /\ ~Traps(i, "oxido_draw_ptr") /\ ~Traps(i, "oxido_draw_len")
    /\ Bins[i.bin].draw_ptr + Bins[i.bin].draw_len > Bins[i.bin].mem_size

\* C7: in a tick where draw_ptr + draw_len exceeds the module's memory, the
\* host reports an ABI error, skips the frame copy and the loop continues.
C7_DrawOutOfBoundsSkipsFrame ==
    [][(host = "running" /\ DrawOutOfBounds(inst') /\ IsTick) =>
          /\ host' = "running"
          /\ pixels' = pixels
          /\ ~tick'.copied
          /\ \E k \in DOMAIN tick'.reports : tick'.reports[k] = "abi error"
      ]_vars

TickEntryPoints == {"oxido_input_set", "oxido_update", "oxido_draw_ptr",
                    "oxido_draw_len", "oxido_audio_state_ptr", "oxido_audio_state_len"}

\* C8: if any module call made during a tick traps, the loop does not exit;
\* when the trapping call is one of the draw calls the surface keeps the
\* previous frame.
C8_TrapKeepsLoopRunning ==
    [][((\E n \in TickEntryPoints : TrappedIn(tick', n)) /\ IsTick) =>
          /\ host' = "running"
          /\ (TrappedIn(tick', "oxido_draw_ptr") \/ TrappedIn(tick', "oxido_draw_len"))
                => pixels' = pixels
      ]_vars

\* the handle lacks an audio entry point, or the block is shorter than 208 bytes
NoAudioBlock(hd, i) ==
    \/ hd.audio_ptr_fn = 0
    \/ hd.audio_len_fn = 0
    \/ Bins[i.bin].audio_len < WireBytes

\* C9: in a tick where an optional audio entry point is missing or the
\* reported block length is below 208, set_params is not called and every
\* channel of the engine is after the tick as it was before it.
C9_ShortOrMissingAudioKeepsParams ==
    [][(host = "running" /\ NoAudioBlock(handle', inst') /\ IsTick) =>
          /\ tick'.audio = "skipped"
          /\ channels' = channels
          /\ applied' = applied
      ]_vars

\* a tick on a module publishing a 100-byte block has run to its end while the
\* engine holds the parameters an earlier module set
C9_Witness ==
    /\ host = "running"
    /\ tick.copied
    /\ tick.audio = "skipped"
    /\ audio_engine
    /\ handle.audio_ptr_fn # 0 /\ handle.audio_len_fn # 0
    /\ Bins[inst.bin].audio_len < WireBytes
    /\ applied # <<>>
    /\ applied # Bins[inst.bin].block
    /\ \E i \in ChIdx : channels[i].gate

\* the audio path reaches the slice with a block of at least 208 bytes that
\* does not fit into the module's memory
AudioOutOfBounds(hd, i) ==
    /\ hd.audio_ptr_fn # 0 /\ hd.audio_len_fn # 0
    /\ ~Traps(i, "oxido_audio_state_ptr") /\ ~Traps(i, "oxido_audio_state_len")
    /\ Bins[i.bin].audio_len >= WireBytes
    /\ Bins[i.bin].audio_ptr + Bins[i.bin].audio_len > Bins[i.bin].mem_size

\* C10: a failure in the audio-parameter path never stops simulation or
\* video: with a block of length >= 208 reaching past the module's memory only
\* the audio update is skipped, the frame is copied and the loop keeps running.
C10_AudioOutOfBoundsKeepsLoopRunning ==
    [][(host = "running" /\ audio_engine /\ AudioOutOfBounds(handle', inst') /\ IsTick) =>
          /\ host' = "running"
          /\ tick'.copied
          /\ channels' = channels
      ]_vars


---------------------------------------------------------------------------
(* Properties of the envelope generator and the mixer (SpecEnv) *)

IsFillBuffer == \E n \in 1..MaxFrames : FillBuffer(n)

\* one fill_buffer call of a single frame: one step_env call per channel
IsOneFrame == FillBuffer(1)

InUnitRange(x) == Ge(x, 0) /\ Le(x, One)

\* C11: for every channel, in every state reachable by set_params calls with
\* arbitrary control values and envelope steps, env_level is within [0,1].
C11_EnvLevelInUnitRange ==
    \A i \in ChIdx : InUnitRange(channels[i].env_level)

\* the gate edges step_env detects on channel c
Rising(c) == c.gate /\ ~c.gate_prev
Falling(c) == ~c.gate /\ c.gate_prev

\* C12: for a channel with attack duration 0 whose gate goes false to true,
\* the envelope level after the first envelope step following the edge is
\* exactly 1.0, whatever the decay duration and sustain level are.
C12_ZeroAttackReadsFullLevel ==
    [][(op' = "fill_buffer" /\ IsOneFrame)
          => \A i \in ChIdx :
                (Rising(channels[i]) /\ channels[i].a_ms = 0)
                    => channels'[i].env_level = One]_vars

\* the stage a step_env call on c starts from: the one the gate edge of this
\* call enters (1 = Attack, 4 = Release), else the one the channel is in
StageHandled(c) ==
    IF Rising(c) THEN 1 ELSE IF Falling(c) THEN 4 ELSE c.env_state

\* C13: whenever a channel is in, or enters, Attack, Decay or Release with
\* the corresponding duration equal to 0, the stage is left within that same
\* step_env call: after the call the channel is not in that stage and the
\* level is exactly the stage's target (1.0, sustain level, 0.0).
C13_ZeroDurationStageCompletes ==
    [][(op' = "fill_buffer" /\ IsOneFrame)
          => \A i \in ChIdx :
                LET c == channels[i]
                    p == channels'[i]
                IN  /\ (StageHandled(c) = 1 /\ c.a_ms = 0)
                          => (p.env_state # 1 /\ p.env_level = One)
                    /\ (StageHandled(c) = 2 /\ c.d_ms = 0)
                          => (p.env_state # 2 /\ p.env_level = c.s_lvl)
                    /\ (StageHandled(c) = 4 /\ c.r_ms = 0)
                          => (p.env_state # 4 /\ p.env_level = 0)]_vars

\* C14: once a channel has reached Sustain and its gate stays true with
\* unchanged parameters, every later envelope step leaves it in Sustain with
\* env_level exactly equal to sustain_level.
C14_SustainHolds ==
    [][(op' = "fill_buffer" /\ IsFillBuffer)
          => \A i \in ChIdx :
                (channels[i].env_state = 3 /\ channels[i].gate /\ channels[i].gate_prev)
                    => /\ channels'[i].env_state = 3
                       /\ channels'[i].env_level = channels[i].s_lvl
                       /\ Control(channels'[i]) = Control(channels[i])]_vars

\* a buffer of two frames has ended with a channel in Sustain, its gate held,
\* at a sustain level strictly between 0 and 1
C14_Witness ==
    /\ op = "fill_buffer"
    /\ Len(out) = 2
    /\ \E i \in ChIdx :
          /\ loc[i].env_state = 3 /\ channels[i].env_state = 3
          /\ channels[i].gate /\ channels[i].gate_prev
          /\ channels[i].s_lvl > 0 /\ channels[i].s_lvl < One
          /\ channels[i].env_level = channels[i].s_lvl

\* channel c is in Release at a non-zero level, has a positive attack
\* duration, and its gate has just been raised again
ReattackFromRelease(c) ==
    c.env_state = 4 /\ Gt(c.env_level, 0) /\ c.a_ms > 0 /\ Rising(c)

\* C15 as stated: when a channel is in Release with a non-zero level and a
\* positive attack duration and a false-to-true gate edge is observed, the
\* channel enters Attack and the level after that step is the pre-edge level
\* plus one attack increment (step / attack).
C15_ReattackAddsOneIncrement ==
    [][(op' = "fill_buffer" /\ IsOneFrame)
          => \A i \in ChIdx :
                ReattackFromRelease(channels[i])
                    => /\ channels'[i].env_state = 1
                       /\ channels'[i].env_level
                              = channels[i].env_level + StepOver(channels[i].a_ms)]_vars

\* C15, amended: in that case the level after the step is the pre-edge level
\* plus one attack increment, capped at 1.0; the channel is in Attack after
\* the step, or in Decay at level 1.0 when the cap was reached.  The level is
\* never reset to 0 first.
C15_ReattackFromCurrentLevel ==
    [][(op' = "fill_buffer" /\ IsOneFrame)
          => \A i \in ChIdx :
                ReattackFromRelease(channels[i])
                    => LET l1 == channels[i].env_level + StepOver(channels[i].a_ms)
                       IN  IF l1 >= One
                           THEN channels'[i].env_state = 2 /\ channels'[i].env_level = One
                           ELSE channels'[i].env_state = 1 /\ channels'[i].env_level = l1]_vars

\* a frame has been rendered that left a channel in Attack, below 1.0, at a
\* level that is not a whole number of attack increments: the attack started
\* from the level a Release had reached
C15_Witness ==
    /\ op = "fill_buffer"
    /\ Len(out) = 1
    /\ \E i \in ChIdx :
          /\ channels[i].env_state = 1
          /\ channels[i].a_ms > 0
          /\ Lt(channels[i].env_level, One)
          /\ Gt(channels[i].env_level, StepOver(channels[i].a_ms))
          /\ channels[i].env_level % StepOver(channels[i].a_ms) # 0

\* after a frame, channel p sounded as a pulse at amplitude 1.0
FullPulse(p) == p.kind \in {0, 1} /\ amp_of(p) = One
\* the sign of the pulse wave of channel p after its phase step
PulseHigh(p) == Lt(p.phase, p.duty)

\* C16: every sample written by fill_buffer is within [-1, 1] for all channel
\* parameters (including vol outside 0..1), and when all 4 channels are pulse
\* channels at amplitude 1 with the same phase sign, the written sample is
\* exactly +1 or -1.
C16_SamplesClamped ==
    [][(op' = "fill_buffer" /\ IsFillBuffer)
          => /\ \A k \in DOMAIN out' : Ge(out'[k], -One) /\ Le(out'[k], One)
             /\ ( /\ \A i \in ChIdx : FullPulse(channels'[i])
                  /\ \A i, j \in ChIdx : PulseHigh(channels'[i]) = PulseHigh(channels'[j]) )
                   => out'[Len(out')] \in {One, -One}]_vars

\* C17: for a channel with arp_rate_hz = 0, the instantaneous frequency used
\* for every rendered sample equals base_freq for any values of arp_a, arp_b,
\* arp_c, and the channel's arp_phase is left unchanged by rendering.
C17_ZeroRateKeepsBaseFrequency ==
    [][(op' = "fill_buffer" /\ IsOneFrame)
          => \A i \in ChIdx :
                channels[i].arp_rate_hz = 0
                    => LET e == step_env(channels[i])
                           amp == amp_of(e)
                       IN  /\ arpeggio(e).freq = Scale(1000, channels[i].base_freq)
                           /\ channels'[i].arp_phase = channels[i].arp_phase
                           /\ channels'[i] =
                                 IF amp_skipped(amp) THEN e
                                 ELSE oscillator(e, Scale(1000, e.base_freq), amp, t_counter).ch]_vars

\* a frame has been rendered on a sounding pulse channel with arp_rate_hz = 0
\* and non-zero semitone offsets; its phase has advanced
C17_Witness ==
    /\ op = "fill_buffer"
    /\ \E i \in ChIdx :
          /\ channels[i].arp_rate_hz = 0
          /\ channels[i].arp_a # 0 /\ channels[i].arp_b # 0 /\ channels[i].arp_c # 0
          /\ channels[i].kind \in {0, 1}
          /\ ~amp_skipped(amp_of(channels[i]))
          /\ channels[i].phase > 0

---------------------------------------------------------------------------
(* Properties of loading and of the forwarded calls (Spec) *)

IsStart == \E g \in BOOLEAN, m \in BOOLEAN, a \in BOOLEAN : Start(g, m, a)

\* binary b exports the memory and the five required entry points
Complete(b) == "memory" \in Bins[b].exports /\ RequiredExports \subseteq Bins[b].exports

\* the tick log holds a call of an audio entry point
AudioCalled(t) ==
    \E k \in DOMAIN t.calls : t.calls[k][1] \in AudioExports

\* C18: loading a module that lacks the memory export or any of the five
\* required entry points returns an error and yields no handle; loading a
\* module that has them but lacks either or both optional audio entry points
\* succeeds, and in every tick on such a module the audio update is skipped
\* without error.
C18_RequiredAndOptionalExports ==
    [][/\ (host = "init" /\ IsStart) =>
            /\ ~Complete(file.bin) =>
                  /\ ~instantiate_all(file.bin, next_gen).ok
                  /\ host' = "failed"
                  /\ handle' = NoHandle
            /\ (Complete(file.bin) /\ Bins[file.bin].compiles) =>
                  instantiate_all(file.bin, next_gen).ok
       /\ (host = "running" /\ tick'.reload # "none" /\ IsTick) =>
            /\ ~Complete(file.bin) =>
                  /\ tick'.reload = "failed"
                  /\ handle' = handle
                  /\ inst'.gen = inst.gen /\ inst'.bin = inst.bin
            /\ (Complete(file.bin) /\ Bins[file.bin].compiles) =>
                  /\ tick'.reload = "ok"
                  /\ handle'.update = next_gen
                  /\ inst'.bin = file.bin
       /\ (host = "running" /\ ~(AudioExports \subseteq Bins[inst'.bin].exports) /\ IsTick) =>
            /\ handle'.audio_ptr_fn = 0 \/ handle'.audio_len_fn = 0
            /\ tick'.audio = "skipped"
            /\ ~AudioCalled(tick')
            /\ channels' = channels
            /\ \A k \in DOMAIN tick'.reports : tick'.reports[k] \in {"reloaded", "reload failed"}
            /\ tick'.copied => host' = "running"]_vars

\* with the audio engine present, a tick has reloaded a module that lacks an
\* optional audio entry point, copied its frame and skipped the audio update
C18_Witness ==
    /\ host = "running"
    /\ audio_engine
    /\ tick.reload = "ok"
    /\ tick.copied
    /\ tick.audio = "skipped"
    /\ handle.audio_ptr_fn = 0
    /\ handle.audio_len_fn = 0
    /\ handle.update # 0

\* the entry points whose calls the host forwards: init, tick, input
ForwardedCalls == {"oxido_init", "oxido_update", "oxido_input_set"}

\* the tick wrote a line to stderr that is not one of the two reload lines
ReportsFailure(t) ==
    \E k \in DOMAIN t.reports : t.reports[k] \notin {"reloaded", "reload failed"}

\* C19: every trap of a forwarded module call (init, including the init call
\* made after a reload, oxido_update, input_set) produces a report of the
\* failure; none is discarded without being reported.
C19_TrapsAreReported ==
    [][(host = "running" /\ (\E n \in ForwardedCalls : TrappedIn(tick', n)) /\ IsTick)
          => ReportsFailure(tick')]_vars

---------------------------------------------------------------------------
(* Properties of the channel mutex (SpecAudio) *)

\* the render callback is at one of its two raw copies
AtCopy == rpc \in {"locked_snapshot", "locked_writeback"}

\* C20: the channel lock is never held while the render callback performs
\* synthesis: fill_buffer holds it only while copying the 4-channel record
\* into its local copy and while copying it back, and set_params only for its
\* field copy, so neither side can be blocked by the other's computation.
C20_LockHeldOnlyForCopies ==
    /\ lock \in {"free", "audio"}
    /\ lock = "audio" <=> AtCopy
    /\ rpc \in {"synth", "writeback"} =>
          /\ lock = "free"
          /\ \A b \in WireBlocks : ENABLED SetParams(b)
    /\ (rpc = "writeback" \/ (rpc = "idle" /\ t_counter < MaxT)) => ENABLED RenderLock

\* set_params has run to completion while the render callback was between its
\* snapshot and its frame loop: the shared record already differs from the copy
C20_Witness ==
    /\ rpc = "synth"
    /\ op = "set_params"
    /\ lock = "free"
    /\ loc # channels

---------------------------------------------------------------------------
(* Properties of the parameter hand-over (SpecAudio) *)

\* the control fields of record l are those of HostCh::default() in every
\* channel, or those one set_params call stores, in every channel
Unmixed(l) ==
    \/ \A i \in ChIdx : Control(l[i]) = Control(HostChDefault)
    \/ \E b \in WireBlocks : \A i \in ChIdx : HasParams(l[i], b[i])

\* C21: a render snapshot never observes a partially applied parameter
\* update: each snapshot fill_buffer takes holds the control values of one
\* set_params call in all four channels and all fields, and of the latest call
\* it holds the values for all four channels or for none of them.
C21_SnapshotNeverTorn ==
    [][RenderSnapshot =>
          /\ Unmixed(loc')
          /\ applied # <<>> =>
                \/ \A i \in ChIdx : HasParams(loc'[i], applied[i])
                \/ \A i \in ChIdx : ~HasParams(loc'[i], applied[i])
      ]_vars

\* a snapshot has been taken, after earlier buffers, of a record that holds the
\* latest call's values in all channels while an envelope is running
C21_Witness ==
    /\ op = "snapshot"
    /\ t_counter > 0
    /\ applied # <<>>
    /\ \A i \in ChIdx : HasParams(loc[i], applied[i])
    /\ \E i \in ChIdx : loc[i].env_state # 0

---------------------------------------------------------------------------
(* Properties of the module handle (Spec) *)

\* store, memory and every entry point of handle hd belong to one instance
OneInstance(hd) ==
    /\ hd.store # 0
    /\ \A f \in {"memory", "init", "update", "draw_ptr", "draw_len", "input_set"} :
          hd[f] = hd.store
    /\ hd.audio_ptr_fn \in {0, hd.store}
    /\ hd.audio_len_fn \in {0, hd.store}

\* C22: within one tick all module calls (input_set, update, draw_ptr,
\* draw_len, the memory reads, audio_state_ptr, audio_state_len) are made on
\* the same module instance; after a reload the store, the memory and every
\* entry point belong to the new instance, and in no reachable state do some
\* belong to the old instance and some to the new.
C22_OneInstancePerTick ==
    /\ [](host \in {"running", "panicked", "exited"}
             => OneInstance(handle) /\ inst.gen = handle.store)
    /\ [][(host = "running" /\ IsTick) =>
             /\ \A k \in DOMAIN tick'.calls : tick'.calls[k][2] = handle'.store
             /\ tick'.copied => pixels' = FrameData(inst')
             /\ tick'.audio = "set" => applied' = Bins[inst'.bin].block
             /\ tick'.reload = "ok" =>
                   /\ handle'.store = next_gen
                   /\ handle'.store # handle.store
                   /\ inst'.bin = file.bin
             /\ tick'.reload # "ok" => handle' = handle
          ]_vars

\* a tick has reloaded a module and made all seven calls, init included, on it
C22_Witness ==
    /\ host = "running"
    /\ tick.reload = "ok"
    /\ reload_count = 2
    /\ tick.copied
    /\ tick.audio = "set"
    /\ Len(tick.calls) = 7
    /\ handle.store = 3

---------------------------------------------------------------------------
(* Properties of the input state (SpecInput) *)

\* the bit the KeyboardInput arm computes for key k: the virtual keycode's,
\* or the scancode's when the keycode has none
ButtonBit(k) ==
    LET b0 == bit_from_keycode(k[1])
    IN  IF b0 = 0 THEN bit_from_scancode(k[2]) ELSE b0

\* 1 << i for the logical buttons i = 0..7
ButtonBits == {Pow2(i) : i \in 0..7}

\* C23: after any sequence of key press/release and focus events, bit i of
\* the input bitmask is set if and only if at least one key mapped to logical
\* button i is held since the last focus loss, also for a button with two
\* mapped keys: releasing one while the other is held leaves the bit set.
C23_BitsFollowHeldKeys ==
    \A b \in ButtonBits :
        HasBit(input_bits, b) <=> \E k \in held : ButtonBit(k) = b

\* C24: a loss-of-focus event sets the input bitmask to 0 whatever keys were
\* held, and the next tick delivers 0 to the module unless a key-press event
\* arrives after the focus loss and before that tick: with no key gone down
\* since the focus loss, input_set is called with 0.
C24_FocusLossClearsInput ==
    [][/\ FocusLost => input_bits' = 0
       /\ (held = {} /\ IsTick) =>
             /\ input_bits = 0
             /\ \E k \in DOMAIN tick'.calls : tick'.calls[k][1] = "oxido_input_set"
             /\ inst'.bits = 0
             /\ tick'.copied => pixels'.bits = 0
      ]_vars

\* a tick, not the first, has handed the module the bitmask 0 and copied its
\* frame, no key having gone down and stayed down since the last focus loss
C24_Witness ==
    /\ host = "running"
    /\ tick.copied
    /\ held = {}
    /\ input_bits = 0
    /\ inst.bits = 0
    /\ inst.frame_no = 0

---------------------------------------------------------------------------
(* Properties of a session without audio (Spec) *)

\* the calls of a log that are not calls of the audio entry points
NonAudioCalls(calls) == SelectSeq(calls, LAMBDA c : c[1] \notin AudioExports)

\* C25: when AudioEngine::new yields no engine at start-up, the engine is
\* absent for the whole session: set_params is never called and no render
\* runs, while every tick performs the hot-reload check, the input delivery,
\* the module tick and the frame copy exactly as the same tick does with the
\* engine present.
C25_NoEngineNoAudio ==
    /\ [](~audio_engine =>
             /\ channels = DefaultChannels /\ loc = DefaultChannels
             /\ applied = <<>>
             /\ rpc = "idle" /\ t_counter = 0 /\ out = <<>>
             /\ ~ENABLED RenderLock
             /\ \A n \in 1..MaxFrames : ~ENABLED FillBuffer(n))
    /\ [][(host = "running" /\ ~audio_engine /\ IsTick) =>
             \E h \in {main_events_cleared(HostState, file, tick'.mod_time # 0,
                                           input_bits, TRUE)} :
                /\ ~audio_engine'
                /\ tick'.audio = "skipped"
                /\ ~AudioCalled(tick')
                /\ handle' = h.handle
                /\ inst' = h.inst
                /\ last_mtime' = h.last_mtime
                /\ reload_count' = h.reload_count
                /\ pixels' = h.pixels
                /\ tick'.reload = h.reload
                /\ tick'.copied = h.copied
                /\ tick'.calls = NonAudioCalls(h.calls)
                /\ tick'.reports = h.reports
                /\ tick'.copied => host' = "running"
          ]_vars

\* without an engine, a tick has reloaded a module that publishes a full audio
\* block, delivered a held key, copied the frame and left the block unread
C25_Witness ==
    /\ host = "running"
    /\ ~audio_engine
    /\ tick.reload = "ok"
    /\ tick.copied
    /\ tick.audio = "skipped"
    /\ inst.bits # 0
    /\ handle.audio_ptr_fn # 0 /\ handle.audio_len_fn # 0
    /\ Bins[inst.bin].audio_len >= WireBytes
    /\ channels = DefaultChannels

---------------------------------------------------------------------------
(* Properties of init and of the order of a tick (Spec) *)

\* C26: init is called exactly once per instance that becomes the installed
\* handle: once for the initial load, before the first tick, and once for each
\* successful reload, before any input_set/update/draw call on the new
\* instance; it is never called on an instance that is not installed, and the
\* total number of init calls is 1 + reload_count.
C26_InitOncePerInstalledInstance ==
    /\ [](host \in {"running", "panicked", "exited"} => init_calls = 1 + reload_count)
    /\ [][/\ (host = "init" /\ host' = "running" /\ IsStart) =>
                /\ tick'.calls = <<<<"oxido_init", handle'.store, TRUE>>>>
                /\ inst'.inited
                /\ reload_count' = 0
          /\ (host = "running" /\ IsTick) =>
                /\ InitCalls(tick'.calls) = reload_count' - reload_count
                /\ InitCalls(tick'.calls) = IF tick'.reload = "ok" THEN 1 ELSE 0
                /\ tick'.reload = "ok" =>
                      /\ tick'.calls[1][1] = "oxido_init"
                      /\ tick'.calls[1][2] = handle'.store
                      /\ handle'.store = next_gen
                      /\ inst'.gen = next_gen
                      /\ \A k \in 2..Len(tick'.calls) : tick'.calls[k][2] = next_gen
          ]_vars

\* the second reload of the session has run init on the instance it installed
\* and gone on to tick and draw it
C26_Witness ==
    /\ host = "running"
    /\ tick.reload = "ok"
    /\ reload_count = 2
    /\ init_calls = 3
    /\ inst.inited
    /\ tick.copied
    /\ Len(tick.calls) >= 5

\* the entry points of a call log, in the order of the calls
Names(calls) == [k \in DOMAIN calls |-> calls[k][1]]

\* the module calls of a tick after the reload step, in source order
TickOrder == <<"oxido_input_set", "oxido_update", "oxido_draw_ptr", "oxido_draw_len",
               "oxido_audio_state_ptr", "oxido_audio_state_len">>

IsPrefix(a, b) == Len(a) <= Len(b) /\ a = SubSeq(b, 1, Len(a))

\* C27: in every tick the operations occur in this order: hot-reload check
\* (with handle swap and init, if triggered), input_set with the current
\* bitmask, update, draw_ptr and draw_len and the frame copy, then the
\* audio-parameter read and set_params; input_set is called before update,
\* and no module call of the tick precedes the reload check.
C27_TickOrder ==
    [][(host = "running" /\ IsTick) =>
          \E n \in {Names(tick'.calls)} :
          \E body \in {IF tick'.reload = "ok" THEN Tail(n) ELSE n} :
             /\ tick'.reload = "ok" => n[1] = "oxido_init"
             /\ \A k \in DOMAIN tick'.calls : tick'.calls[k][2] = handle'.store
             /\ IsPrefix(body, TickOrder)
             /\ Len(body) >= 3
             /\ ~TrappedIn(tick', "oxido_input_set") => inst'.bits = input_bits
             /\ ~TrappedIn(tick', "oxido_update") =>
                   inst'.frame_no = 1 - (IF tick'.reload = "ok" THEN 0 ELSE inst.frame_no)
             /\ tick'.copied => (Len(body) >= 4 /\ pixels' = FrameData(inst'))
             /\ AudioCalled(tick') => tick'.copied
             /\ tick'.audio = "set" => (Len(body) = 6 /\ applied' = Bins[inst'.bin].block)
             /\ host' = "running" => Len(body) \in {4, 6}
      ]_vars

\* a tick has run the whole sequence: reload with init, input_set with a held
\* key, update, both draw calls, the frame copy, both audio calls, set_params
C27_Witness ==
    /\ host = "running"
    /\ tick.reload = "ok"
    /\ Names(tick.calls) = <<"oxido_init">> \o TickOrder
    /\ inst.bits = 128
    /\ inst.frame_no = 1
    /\ pixels = FrameData(inst)
    /\ tick.audio = "set"
    /\ op = "set_params"

---------------------------------------------------------------------------
(* Properties of the hot-reload block (Spec) *)

\* C28: a reload is attempted in a tick only if the cartridge's modification
\* time can be read and is strictly greater than last_mtime; last_mtime never
\* decreases and changes only on a successful reload, where it becomes the
\* modification time that triggered it; reload_count increases by exactly 1
\* on each successful reload and never otherwise; when the metadata cannot be
\* read, no reload is attempted and the running module is kept.
C28_ReloadTriggerAndBookkeeping ==
    [][host = "running" =>
          /\ last_mtime' >= last_mtime
          /\ reload_count' >= reload_count
          /\ (last_mtime' # last_mtime \/ reload_count' # reload_count)
                => (tick'.reload = "ok" /\ IsTick)
          /\ IsTick =>
                /\ tick'.reload # "none"
                      => (tick'.mod_time = file.mtime /\ file.mtime > last_mtime)
                /\ tick'.reload = "ok"
                      => /\ last_mtime' = file.mtime
                         /\ reload_count' = reload_count + 1
                         /\ handle'.store = next_gen
                /\ tick'.mod_time = 0
                      => /\ tick'.reload = "none"
                         /\ handle' = handle
                         /\ inst'.gen = inst.gen
      ]_vars

\* after a start that could not read the modification time, a tick has found
\* the file newer than last_mtime and reloaded it, and a later tick a newer
\* file again
C28_Witness ==
    /\ host = "running"
    /\ tick.reload = "ok"
    /\ tick.mod_time = 2
    /\ last_mtime = 2
    /\ reload_count = 2
    /\ handle.store = 3

\* C29: a reload attempt, successful or failed, leaves host-side state other
\* than the module handle, last_mtime and reload_count unchanged: the audio
\* engine's channel record (control parameters and synthesis state) and the
\* input bitmask are the same immediately after the reload step as
\* immediately before it.
C29_ReloadKeepsHostState ==
    [][(host = "running" /\ tick'.reload # "none" /\ IsTick) =>
          \E h \in {hot_reload(HostState, file, TRUE)} :
             /\ h.reload = tick'.reload
             /\ h.channels = channels
             /\ h.applied = applied
             /\ h.pixels = pixels
             /\ input_bits' = input_bits
             /\ audio_engine' = audio_engine
             /\ <<loc', rpc', t_counter', out', lock'>> = <<loc, rpc, t_counter, out, lock>>
             /\ \A i \in ChIdx : Synth(channels'[i]) = Synth(channels[i])
             /\ tick'.audio = "skipped" => channels' = channels
      ]_vars

\* a tick has reloaded a module whose init trapped, with a key held, while the
\* engine was in the middle of a note of the previous module: the envelope and
\* oscillator state and the control values are still there
C29_Witness ==
    /\ host = "running"
    /\ tick.reload = "ok"
    /\ TrappedIn(tick, "oxido_init")
    /\ input_bits = 128
    /\ t_counter > 0
    /\ \E i \in ChIdx :
          /\ channels[i].gate
          /\ channels[i].env_state # 0
          /\ channels[i].phase > 0

---------------------------------------------------------------------------
(* Properties of the stored control parameters (SpecEnv) *)

IsSetParamsEnv == \E b \in EnvBlocks : SetParams(b)

\* the durations, the arpeggio rate and the sustain level of channel c are in
\* their ranges
ParamsInRange(c) ==
    /\ Ge(c.a_ms, 0) /\ Ge(c.d_ms, 0) /\ Ge(c.r_ms, 0)
    /\ Ge(c.arp_rate_hz, 0)
    /\ InUnitRange(c.s_lvl)

\* C30: in every reachable state of the audio engine, each channel's stored
\* attack, decay and release durations and arpeggio rate are >= 0 and its
\* stored sustain level is within [0,1], for any sequence of set_params calls
\* with arbitrary wire values; values already in range are stored unchanged.
C30_StoredParamsInRange ==
    /\ [](\A i \in ChIdx : ParamsInRange(channels[i]))
    /\ [][IsSetParamsEnv =>
             \A i \in ChIdx :
                /\ Ge(applied'[i].a_ms, 0) => channels'[i].a_ms = applied'[i].a_ms
                /\ Ge(applied'[i].d_ms, 0) => channels'[i].d_ms = applied'[i].d_ms
                /\ Ge(applied'[i].r_ms, 0) => channels'[i].r_ms = applied'[i].r_ms
                /\ Ge(applied'[i].arp_rate_hz, 0)
                      => channels'[i].arp_rate_hz = applied'[i].arp_rate_hz
                /\ InUnitRange(applied'[i].s_lvl) => channels'[i].s_lvl = applied'[i].s_lvl
          ]_vars

---------------------------------------------------------------------------
(* Properties of the oscillators (SpecEnv) *)

\* C31: for every pulse channel and any base frequency and arpeggio offsets
\* the cartridge may publish (frequencies at or above the sample rate and
\* negative frequencies included), the oscillator phase is within [0,1) after
\* every rendered sample.
C31_PhaseInUnitInterval ==
    \A i \in ChIdx :
        channels[i].kind \in {0, 1}
            => (Ge(channels[i].phase, 0) /\ Lt(channels[i].phase, One))

\* fill_buffer clocks the shift register of channel ch0 in the frame rendered
\* at counter t: a noise channel that is not skipped, at a multiple of nsteps
Clocks(ch0, t) ==
    LET ar == arpeggio(step_env(ch0))
    IN  /\ ch0.kind = 2
        /\ ~amp_skipped(amp_of(ar.ch))
        /\ t % Max((1000 * SR) \div Max(ar.freq, 1000), 1) = 0

\* C33: after every clock of a noise channel's shift register its value is
\* non-zero and below 2^15; a register that is 0 (the default state of every
\* channel) becomes the reseed value 0x4000 at its first clock, and from a
\* non-zero 15-bit value the shifted value itself is never 0.
C33_NoiseRegisterNeverZero ==
    [][\A i \in ChIdx :
          (IsOneFrame /\ Clocks(channels[i], t_counter))
              => /\ channels'[i].noise \in 1..LfsrMask
                 /\ channels[i].noise = 0 => channels'[i].noise = 16384
                 /\ channels[i].noise # 0
                       => channels'[i].noise = lfsr_clock_no_reseed(channels[i].noise)]_vars

\* the default register 0 has been clocked once and holds 0x4000
C33_Witness ==
    /\ op = "fill_buffer"
    /\ t_counter = 1
    /\ channels[1].kind = 2
    /\ channels[1].noise = 16384
    /\ out # <<0>>

---------------------------------------------------------------------------
(* The amplitude skip against a renderer without it (SpecSkip) *)

IsFillBufferBoth == \E n \in 1..MaxFrames : FillBufferBoth(n)

\* C32: skipping a channel whose amplitude is at or below 0.0001 is
\* indistinguishable from computing its sample and adding zero: run side by
\* side on the same parameter history, the renderer that skips and a renderer
\* that always advances the channel's oscillator and adds the amplitude-scaled
\* output write the same samples, in the skipped frames and in all later ones.
C32_SkipIsUnobservable ==
    [][IsFillBufferBoth
         => out' = render_frames_always(shadow, t_counter, Len(out'), <<>>).out]_vars

---------------------------------------------------------------------------
(* The end of the Release stage (SpecRelease) *)

\* channel i is in Release with a positive release duration, a level above 0
\* and the gate off
Releasing(i) ==
    /\ channels[i].env_state = 4
    /\ channels[i].r_ms > 0
    /\ Gt(channels[i].env_level, 0)
    /\ ~channels[i].gate

\* C34: for a channel in Release with positive release duration and a
\* non-zero level, if the gate stays false and the parameters stay unchanged
\* (no further set_params call), the envelope eventually reaches Idle with
\* level 0.0 after finitely many envelope steps.
C34_ReleaseReachesIdle ==
    \A i \in ChIdx :
        [](Releasing(i)
            => <>(\/ (channels[i].env_state = 0 /\ channels[i].env_level = 0)
                  \/ op = "set_params"))

---------------------------------------------------------------------------
(* The envelope stage against the gate (SpecEnv) *)

\* the stage of channel c agrees with its gate: Attack, Decay and Sustain
\* with the gate on, Idle and Release with the gate off
StageAgreesWithGate(c) ==
    /\ c.gate_prev = c.gate
    /\ c.env_state \in 0..4
    /\ c.env_state \in {1, 2, 3} => c.gate
    /\ c.env_state \in {0, 4} => ~c.gate

\* C35: after every step_env call, for any sequence of gate values and
\* parameters, the envelope stage agrees with the gate: Attack, Decay and
\* Sustain imply that gate (= gate_prev) is true, Idle and Release that it is
\* false. Consequently Idle always has level 0.0 (the Idle branch never sets
\* the level to 1.0) and the Sustain branch never takes its transition to
\* Release on a false gate.
C35_StageAgreesWithGate ==
    /\ [][IsFillBuffer => \A i \in ChIdx : StageAgreesWithGate(channels'[i])]_vars
    /\ [](\A i \in ChIdx : channels[i].env_state = 0 => channels[i].env_level = 0)
    /\ [][IsOneFrame
            => \A i \in ChIdx :
                  \E e \in {env_edge(channels[i])} :
                      /\ ~(e.env_state = 3 /\ ~e.gate)
                      /\ ~(e.env_state \notin 1..4 /\ e.gate)]_vars

\* a channel that went through a rising and a falling edge is in Release with
\* the gate off, its level still above 0
C35_Witness ==
    /\ op = "fill_buffer"
    /\ \E i \in ChIdx :
          /\ channels[i].env_state = 4
          /\ ~channels[i].gate
          /\ ~channels[i].gate_prev
          /\ Gt(channels[i].env_level, 0)

=============================================================================
